---- MODULE Spec2Model ----
(***************************************************************************)
(* API-key authorization gate of the vector-search server, in its two      *)
(* transport adapters:                                                     *)
(*   HTTP  (actix):  src/src/actix/api_key.rs and api_key_middleware/*.rs  *)
(*   gRPC  (tonic):  src/src/tonic/api_key.rs and api_key_middleware/*.rs  *)
(* A factory holding two optional secrets builds one gate (Full, Master,   *)
(* ReadOnly or Phantom).  The gate polls the next stage for readiness,     *)
(* inspects the "api-key" header of each request and either hands the      *)
(* request to the next stage or answers 403 itself.                        *)
(***************************************************************************)
EXTENDS Integers, Sequences, FiniteSets, TLC

\* ------------------------------------------------------------------ bounds

\* Longest key and longest header value, in bytes.
MaxLen == 2
\* The count of requests already answered is kept up to this number.
MaxServed == 1

\* ------------------------------------------------------- program constants

\* StatusCode::FORBIDDEN / HttpResponse::Forbidden()
FORBIDDEN == 403
\* tonic::Code::PermissionDenied as i32
PermissionDenied == 7

\* --------------------------------------------------------------- the data

\* Bytes of ASCII 'a' and 'b'.
AsciiBytes == {97, 98}

RECURSIVE SeqsUpTo(_, _)
\* Every sequence over S of length at most n.
SeqsUpTo(S, n) ==
    IF n = 0 THEN {<<>>}
    ELSE LET shorter == SeqsUpTo(S, n - 1)
         IN  shorter \cup {Append(s, x) : s \in {t \in shorter : Len(t) = n - 1}, x \in S}

\* A key is a Rust String: valid UTF-8.  The ASCII keys up to MaxLen bytes and
\* one non-ASCII key, U+00E9 (0xC3 0xA9).
NonAsciiKey == <<195, 169>>
Keys == SeqsUpTo(AsciiBytes, MaxLen) \cup {NonAsciiKey}

\* A header value is any byte string a HeaderValue can hold: the ASCII ones,
\* the bytes of the non-ASCII key and a lone Latin-1 byte 0xE9.
HeaderValues == SeqsUpTo(AsciiBytes, MaxLen) \cup {NonAsciiKey, <<233>>}

\* GET, and some of the methods that are not GET.
Methods == {"GET", "POST", "PUT", "HEAD"}

\* Option<String>
None == [some |-> FALSE, val |-> <<>>]
Some(v) == [some |-> TRUE, val |-> v]
OptionKeys == {None} \cup {Some(k) : k \in Keys}

\* A request: its method, its api-key header (Option) and one other header.
Requests ==
    [method : Methods, api_key : {None} \cup {Some(v) : v \in HeaderValues},
     other : {None, Some(<<97>>)}]

Transports == {"http", "grpc"}

\* ------------------------------------------------------------- responses

Response(status, body, headers) ==
    [status |-> status, body |-> body, headers |-> headers]

\* Result<Response, Error>
Ok(resp) == [kind |-> "ok", resp |-> resp, err |-> ""]
Err(e) == [kind |-> "err", resp |-> Response(0, "", {}), err |-> e]
NoResult == [kind |-> "none", resp |-> Response(0, "", {}), err |-> ""]

\* What the next stage may answer: two responses (one of them a 403 of its
\* own) or an error.
NextOutcomes ==
    { Ok(Response(200, "points", {})),
      Ok(Response(FORBIDDEN, "collection is locked", {})),
      Err("next-stage-error") }

\* The rejection each adapter builds.
HttpForbidden == Response(FORBIDDEN, "Invalid api-key", {})

\* HeaderValue::from(i32): the decimal text of the number.
HeaderValueFromI32(n) == ToString(n)

GrpcForbidden ==
    Response(FORBIDDEN, "",
             { <<"grpc-status", HeaderValueFromI32(PermissionDenied)>>,
               <<"grpc-message", "Invalid api-key">> })

\* ------------------------------------------------------------ primitives

\* HeaderValue::to_str: Ok iff every byte is visible ASCII (32..126) or a tab.
ToStrOk(v) == \A i \in 1..Len(v) : (v[i] >= 32 /\ v[i] < 127) \/ v[i] = 9

RECURSIVE BitXor(_, _, _)
\* x ^ y on n-bit numbers.
BitXor(x, y, n) ==
    IF n = 0 THEN 0
    ELSE (((x % 2) + (y % 2)) % 2) + 2 * BitXor(x \div 2, y \div 2, n - 1)

RECURSIVE BitOr(_, _, _)
\* x | y on n-bit numbers.
BitOr(x, y, n) ==
    IF n = 0 THEN 0
    ELSE (IF (x % 2) = 1 \/ (y % 2) = 1 THEN 1 ELSE 0)
         + 2 * BitOr(x \div 2, y \div 2, n - 1)

RECURSIVE constant_time_ne(_, _, _, _)
\* The accumulator loop of the constant_time_eq crate over equally long
\* slices: tmp |= a[i] ^ b[i] for every index, no exit before the end.
\* Returns the accumulator and the number of bytes visited.
constant_time_ne(a, b, i, tmp) ==
    IF i > Len(a) THEN [tmp |-> tmp, steps |-> Len(a)]
    ELSE constant_time_ne(a, b, i + 1, BitOr(tmp, BitXor(a[i], b[i], 8), 8))

\* constant_time_eq(a, b): a.len() == b.len() && constant_time_ne(a, b) == 0.
\* The result and the number of bytes the loop visited.
constant_time_eq(a, b) ==
    IF Len(a) # Len(b) THEN [eq |-> FALSE, steps |-> 0]
    ELSE LET r == constant_time_ne(a, b, 1, 0)
         IN  [eq |-> r.tmp = 0, steps |-> r.steps]

\* An early-exit slice equality (a == b): stops at the first differing byte.
EarlyExitEq(a, b) ==
    IF Len(a) # Len(b) THEN [eq |-> FALSE, steps |-> 0]
    ELSE LET diff == {i \in 1..Len(a) : a[i] # b[i]}
         IN  IF diff = {} THEN [eq |-> TRUE, steps |-> Len(a)]
             ELSE [eq |-> FALSE, steps |-> CHOOSE i \in diff : \A j \in diff : i <= j]

\* --------------------------------------------- one step of a handler's run

\* A step that compares nothing: headers().get, to_str, method(), the call of
\* the next stage, the building of the rejection.
Ev(op) ==
    [op |-> op, which |-> "", la |-> 0, lb |-> 0, steps |-> 0, eq |-> FALSE]

\* A comparison of the request's key with a configured secret by an early-exit
\* equality.
CompareSecretEarlyExit(which, secret, key) ==
    LET r == EarlyExitEq(secret, key)
    IN  [op |-> "==", which |-> which, la |-> Len(secret), lb |-> Len(key),
         steps |-> r.steps, eq |-> r.eq]

\* constant_time_eq(self.<which>.as_bytes(), key.as_bytes()), as every handler
\* writes it.
CompareSecret(which, secret, key) ==
    LET r == constant_time_eq(secret, key)
    IN  [op |-> "constant_time_eq", which |-> which, la |-> Len(secret),
         lb |-> Len(key), steps |-> r.steps, eq |-> r.eq]

\* Forward handing on the request with its api-key header taken off.
ForwardStripped(r, evs) ==
    [admit |-> TRUE, events |-> Append(evs, Ev("service.call")),
     passed |-> [r EXCEPT !.api_key = None], result |-> NoResult]

\* return Box::pin(self.service.call(req)): the request, as it came, goes to
\* the next stage, whose future is the handler's.
Forward(r, evs) ==
    [admit |-> TRUE, events |-> Append(evs, Ev("service.call")), passed |-> r,
     result |-> NoResult]

\* The HTTP rejection: a ready future of Ok(403 "Invalid api-key").
HttpReject(r, evs) ==
    [admit |-> FALSE, events |-> Append(evs, Ev("forbidden")), passed |-> r,
     result |-> Ok(HttpForbidden)]

\* The gRPC rejection: a ready future of Ok(403 with the grpc-status and
\* grpc-message headers).
GrpcReject(r, evs) ==
    [admit |-> FALSE, events |-> Append(evs, Ev("forbidden")), passed |-> r,
     result |-> Ok(GrpcForbidden)]

\* ------------------------------------------------------------ the factory

\* A gate: its variant and the secrets that variant holds ("None": not built).
Gate(variant, master, read_only) ==
    [variant |-> variant, master_key |-> master, read_only_key |-> read_only]

NoGate == Gate("None", <<>>, <<>>)

\* ApiKeyGuard::new_transform: the match on (master_key, read_only_key).
new_transform(master, read_only) ==
    IF master.some /\ read_only.some THEN Gate("Full", master.val, read_only.val)
    ELSE IF master.some /\ ~read_only.some THEN Gate("Master", master.val, <<>>)
    ELSE IF ~master.some /\ read_only.some THEN Gate("ReadOnly", <<>>, read_only.val)
    ELSE Gate("Phantom", <<>>, <<>>)

\* layer whose master-only arm falls through to the open gate.
layerMasterFallsThrough(master, read_only) ==
    IF master.some /\ read_only.some THEN Gate("Full", master.val, read_only.val)
    ELSE IF ~master.some /\ read_only.some THEN Gate("ReadOnly", <<>>, read_only.val)
    ELSE Gate("Phantom", <<>>, <<>>)

\* ApiKeyMiddlewareLayer::layer: the same match, building the enum's variants.
layer(master, read_only) ==
    IF master.some /\ read_only.some THEN Gate("Full", master.val, read_only.val)
    ELSE IF master.some /\ ~read_only.some THEN Gate("Master", master.val, <<>>)
    ELSE IF ~master.some /\ read_only.some THEN Gate("ReadOnly", <<>>, read_only.val)
    ELSE Gate("Phantom", <<>>, <<>>)

\* ------------------------------------------------- the HTTP (actix) gates

\* FullApiKeyMiddleware::call
HttpFullCall(g, r) ==
    LET e1 == <<Ev("headers.get")>>
        e2 == Append(e1, Ev("to_str"))
        e3 == Append(e2, Ev("method"))
        cr == CompareSecret("read_only_key", g.read_only_key, r.api_key.val)
        cm == CompareSecret("master_key", g.master_key, r.api_key.val)
    IN  IF ~r.api_key.some THEN HttpReject(r, e1)
        ELSE IF ~ToStrOk(r.api_key.val) THEN HttpReject(r, e2)
        ELSE IF r.method = "GET"
             THEN IF cr.eq THEN Forward(r, Append(e3, cr))
                  ELSE IF cm.eq THEN Forward(r, e3 \o <<cr, cm>>)
                  ELSE HttpReject(r, e3 \o <<cr, cm>>)
             ELSE IF cm.eq THEN Forward(r, Append(e3, cm))
                  ELSE HttpReject(r, Append(e3, cm))

\* HttpMasterCall comparing only as many bytes of the secret as the header
\* value has: a prefix of the secret passes.
HttpMasterCallPrefix(g, r) ==
    LET e1 == <<Ev("headers.get")>>
        e2 == Append(e1, Ev("to_str"))
        n  == IF Len(r.api_key.val) < Len(g.master_key)
              THEN Len(r.api_key.val) ELSE Len(g.master_key)
        cm == CompareSecret("master_key", SubSeq(g.master_key, 1, n), r.api_key.val)
    IN  IF ~r.api_key.some THEN HttpReject(r, e1)
        ELSE IF ~ToStrOk(r.api_key.val) THEN HttpReject(r, e2)
        ELSE IF cm.eq THEN Forward(r, Append(e2, cm))
        ELSE HttpReject(r, Append(e2, cm))

\* MasterKeyMiddleware::call
HttpMasterCall(g, r) ==
    LET e1 == <<Ev("headers.get")>>
        e2 == Append(e1, Ev("to_str"))
        cm == CompareSecret("master_key", g.master_key, r.api_key.val)
    IN  IF ~r.api_key.some THEN HttpReject(r, e1)
        ELSE IF ~ToStrOk(r.api_key.val) THEN HttpReject(r, e2)
        ELSE IF cm.eq THEN Forward(r, Append(e2, cm))
        ELSE HttpReject(r, Append(e2, cm))

\* HttpReadOnlyCall without the method test.
HttpReadOnlyCallNoMethodTest(g, r) ==
    LET e1 == <<Ev("headers.get")>>
        e2 == Append(e1, Ev("to_str"))
        cr == CompareSecret("read_only_key", g.read_only_key, r.api_key.val)
    IN  IF ~r.api_key.some THEN HttpReject(r, e1)
        ELSE IF ~ToStrOk(r.api_key.val) THEN HttpReject(r, e2)
        ELSE IF cr.eq THEN Forward(r, Append(e2, cr))
        ELSE HttpReject(r, Append(e2, cr))

\* ReadOnlyKeyMiddleware::call: the method is tested first.
HttpReadOnlyCall(g, r) ==
    LET e1 == <<Ev("method")>>
        e2 == Append(e1, Ev("headers.get"))
        e3 == Append(e2, Ev("to_str"))
        cr == CompareSecret("read_only_key", g.read_only_key, r.api_key.val)
    IN  IF r.method # "GET" THEN HttpReject(r, e1)
        ELSE IF ~r.api_key.some THEN HttpReject(r, e2)
        ELSE IF ~ToStrOk(r.api_key.val) THEN HttpReject(r, e3)
        ELSE IF cr.eq THEN Forward(r, Append(e3, cr))
        ELSE HttpReject(r, Append(e3, cr))

\* PhantomMiddleware::call
HttpPhantomCall(g, r) == Forward(r, <<>>)

\* --------------------------------------------------- the gRPC (tonic) gate

\* GrpcFullCall without the method test: the read-only secret opens every
\* method.
GrpcFullCallAnyMethod(g, r) ==
    LET e1 == <<Ev("headers.get")>>
        e2 == Append(e1, Ev("to_str"))
        cr == CompareSecret("read_only_key", g.read_only_key, r.api_key.val)
        cm == CompareSecret("master_key", g.master_key, r.api_key.val)
    IN  IF ~r.api_key.some THEN GrpcReject(r, e1)
        ELSE IF ~ToStrOk(r.api_key.val) THEN GrpcReject(r, e2)
        ELSE IF cr.eq THEN Forward(r, Append(e2, cr))
        ELSE IF cm.eq THEN Forward(r, e2 \o <<cr, cm>>)
        ELSE GrpcReject(r, e2 \o <<cr, cm>>)

\* ApiKeyMiddleware::call, FullApiKeyMiddleware arm: the read-only secret is
\* tried on GET only, then the master secret on every method.
GrpcFullCall(g, r) ==
    LET e1 == <<Ev("headers.get")>>
        e2 == Append(e1, Ev("to_str"))
        e3 == Append(e2, Ev("method"))
        cr == CompareSecret("read_only_key", g.read_only_key, r.api_key.val)
        cm == CompareSecret("master_key", g.master_key, r.api_key.val)
    IN  IF ~r.api_key.some THEN GrpcReject(r, e1)
        ELSE IF ~ToStrOk(r.api_key.val) THEN GrpcReject(r, e2)
        ELSE IF r.method = "GET"
             THEN IF cr.eq THEN Forward(r, Append(e3, cr))
                  ELSE IF cm.eq THEN Forward(r, e3 \o <<cr, cm>>)
                  ELSE GrpcReject(r, e3 \o <<cr, cm>>)
             ELSE IF cm.eq THEN Forward(r, Append(e3, cm))
                  ELSE GrpcReject(r, Append(e3, cm))

\* GrpcMasterCall answering a missing header with a response of its own
\* (401, grpc-status 16).
GrpcMasterCallMissingHeader(g, r) ==
    LET e1 == <<Ev("headers.get")>>
        e2 == Append(e1, Ev("to_str"))
        cm == CompareSecret("master_key", g.master_key, r.api_key.val)
    IN  IF ~r.api_key.some
        THEN [admit |-> FALSE, events |-> Append(e1, Ev("forbidden")), passed |-> r,
              result |-> Ok(Response(401, "",
                                     { <<"grpc-status", HeaderValueFromI32(16)>>,
                                       <<"grpc-message", "Missing api-key">> }))]
        ELSE IF ~ToStrOk(r.api_key.val) THEN GrpcReject(r, e2)
        ELSE IF cm.eq THEN Forward(r, Append(e2, cm))
        ELSE GrpcReject(r, Append(e2, cm))

\* ApiKeyMiddleware::call, MasterApiKeyMiddleware arm
GrpcMasterCall(g, r) ==
    LET e1 == <<Ev("headers.get")>>
        e2 == Append(e1, Ev("to_str"))
        cm == CompareSecret("master_key", g.master_key, r.api_key.val)
    IN  IF ~r.api_key.some THEN GrpcReject(r, e1)
        ELSE IF ~ToStrOk(r.api_key.val) THEN GrpcReject(r, e2)
        ELSE IF cm.eq THEN Forward(r, Append(e2, cm))
        ELSE GrpcReject(r, Append(e2, cm))

\* ApiKeyMiddleware::call, ReadOnlyApiKeyMiddleware arm (and the draft
\* ReadOnlyKeyMiddleware::call): the header is read first, the method is
\* tested in the same condition as the comparison.
GrpcReadOnlyCall(g, r) ==
    LET e1 == <<Ev("headers.get")>>
        e2 == Append(e1, Ev("to_str"))
        e3 == Append(e2, Ev("method"))
        cr == CompareSecret("read_only_key", g.read_only_key, r.api_key.val)
    IN  IF ~r.api_key.some THEN GrpcReject(r, e1)
        ELSE IF ~ToStrOk(r.api_key.val) THEN GrpcReject(r, e2)
        ELSE IF r.method # "GET" THEN GrpcReject(r, e3)
        ELSE IF cr.eq THEN Forward(r, Append(e3, cr))
        ELSE GrpcReject(r, Append(e3, cr))

\* GrpcPhantomCall asking for an api-key header all the same.
GrpcPhantomCallInspect(g, r) ==
    IF r.api_key.some THEN Forward(r, <<Ev("headers.get")>>)
    ELSE GrpcReject(r, <<Ev("headers.get")>>)

\* ApiKeyMiddleware::call, fallback arm (and the draft PhantomMiddleware::call)
GrpcPhantomCall(g, r) == Forward(r, <<>>)

\* --------------------------------------------------------------- dispatch

\* The synchronous part of the gate's call, by adapter and variant.
GateCall(t, g, r) ==
    IF t = "http"
    THEN CASE g.variant = "Full" -> HttpFullCall(g, r)
           [] g.variant = "Master" -> HttpMasterCall(g, r)
           [] g.variant = "ReadOnly" -> HttpReadOnlyCall(g, r)
           [] OTHER -> HttpPhantomCall(g, r)
    ELSE CASE g.variant = "Full" -> GrpcFullCall(g, r)
           [] g.variant = "Master" -> GrpcMasterCall(g, r)
           [] g.variant = "ReadOnly" -> GrpcReadOnlyCall(g, r)
           [] OTHER -> GrpcPhantomCall(g, r)

\* AwaitNext turning the next stage's error into an error of the gate's own.
AwaitNextOwnError(t, o) ==
    IF o.kind = "err" THEN Err("api-key gate failed") ELSE Ok(o.resp)

\* What the gate's future yields once the next stage's future has yielded o:
\* HTTP returns the next stage's future itself; gRPC awaits it, passes an
\* error on with ? and wraps the response in Ok again.
AwaitNext(t, o) ==
    IF t = "http" THEN o
    ELSE IF o.kind = "err" THEN Err(o.err) ELSE Ok(o.resp)

\* poll_ready that says ready without asking the next stage.
poll_ready_always(g, next) == "ready"

\* forward_ready!(service) / poll_ready: the next stage's answer, as it is.
poll_ready(g, next) == next

PollResults == {"ready", "pending", "error"}

\* ------------------------------------------------------------------ state

VARIABLES
    transport,      \* the adapter: "http" or "grpc"
    master_key,     \* the factory's master_key: Option<String>
    read_only_key,  \* the factory's read_only_key: Option<String>
    gate,           \* the gate the factory built (NoGate before)
    ready,          \* the last readiness poll: what the next stage said, what the gate said
    pc,             \* "idle", "awaiting" (the next stage holds the request), "done"
    req,            \* the request being handled
    events,         \* the steps the gate's call took for it, in order
    nextCalls,      \* the requests handed to the next stage for it
    nextResult,     \* what the next stage's future yielded
    result,         \* what the gate's future yielded
    served          \* how many requests the gate has answered (up to MaxServed)

\* The typed views over a memory mapped file (mmap_type.rs).
VARIABLES
    build,          \* the build: whether debug assertions are compiled in
    cfg,            \* how the file is viewed: the view's kind, element type, header size
    file,           \* the file's bytes, shared with every mapping of it
    view,           \* the view over the mapping: closed, open (base, offset, length) or panicked
    expected,       \* what was last written through a view (nothing yet: zeros)
    opens,          \* how many times the file was opened as a view (up to 2)
    synced          \* TRUE when every write has been flushed to the disk

viewVars == <<build, cfg, file, view, expected, opens, synced>>

\* The shared ownership of a mapping and the flushes of it (mmap_type.rs).
VARIABLES
    mapping,        \* the Arc<Mutex<MmapMut>>: whether the file is mapped, how many own it
    flushers,       \* the flushers produced and neither called nor dropped yet
    thread,         \* each thread's place in a flusher it called: "idle", "waiting", "flushing"
    mutex,          \* who holds the mapping's mutex: a thread, "owner" or "free"
    owner,          \* the view owner's place in lock(): "idle", "waiting", "flushing"
    pinned,         \* TRUE when the OS was asked to keep the pages in memory
    lockReturn      \* what lock() returned last: "none" or "ok"

flushVars == <<mapping, flushers, thread, mutex, owner, pinned, lockReturn>>

Threads == {"t1", "t2"}

\* The process-wide advice and the advice given to mappings (madvise.rs).
VARIABLES
    platform,       \* the target the crate is built for: "linux", "unix" (other), "windows"
    ADVICE,         \* the value in the static's RwLock, as the two bits of its discriminant
    rwlock,         \* the RwLock: its writer and its readers
    caller,         \* each thread's place in set_global or get_global
    got,            \* what get_global returned to each thread, until its next call
    passed,         \* the values set_global was called with so far
    lastSet,        \* the value of the last set_global that returned (Random before)
    advised         \* the last madvise: what the OS was asked, what madvise returned

adviceVars == <<platform, ADVICE, rwlock, caller, got, passed, lastSet, advised>>

Idle == [pc |-> "idle", arg |-> "Random", hi |-> 0, alone |-> TRUE]

NotAdvised == [os |-> "none", result |-> "none"]

\* The static as the program starts: RwLock::new(Advice::Random).
StaticInit ==
    /\ ADVICE = [hi |-> 0, lo |-> 1]
    /\ rwlock = [writer |-> "none", readers |-> {}]
    /\ caller = [t \in Threads |-> Idle]
    /\ got = [t \in Threads |-> "none"]
    /\ passed = {}
    /\ lastSet = "Random"
    /\ advised = NotAdvised

\* Nobody calls the advice functions.
NoAdvice == platform = "linux" /\ StaticInit

Unmapped == [mapped |-> FALSE, owners |-> 0]

\* No mapping is shared.
NoFlushers ==
    /\ mapping = Unmapped
    /\ flushers = 0
    /\ thread = [t \in Threads |-> "idle"]
    /\ mutex = "free"
    /\ owner = "idle"
    /\ pinned = FALSE
    /\ lockReturn = "none"

gateVars ==
    <<transport, master_key, read_only_key, gate, ready, pc, req, events,
      nextCalls, nextResult, result, served>>

\* Everything outside the gate.
mmapVars == <<viewVars, flushVars, adviceVars>>

\* Everything but the view and the file under it.
outsideViews == <<gateVars, flushVars, adviceVars>>

\* Everything but the mapping, its view and its file.
outsideMmap == <<gateVars, adviceVars>>

vars == <<gateVars, mmapVars>>

ClosedView == [state |-> "closed", base |-> 0, offset |-> 0, len |-> 0]

\* No file is opened.
NoViews ==
    /\ build = [debug |-> FALSE]
    /\ cfg = [kind |-> "none", ty |-> [name |-> "u8", size |-> 1, align |-> 1], header |-> 0]
    /\ file = <<>>
    /\ view = ClosedView
    /\ expected = [some |-> FALSE, val |-> 0]
    /\ opens = 0
    /\ synced = TRUE

NotPolled == [next |-> "none", gate |-> "none"]

NoRequest == [method |-> "GET", api_key |-> None, other |-> None]

\* No gate is built.
gateIdle ==
    /\ transport = "http"
    /\ master_key = None
    /\ read_only_key = None
    /\ gate = NoGate
    /\ ready = NotPolled
    /\ pc = "idle"
    /\ req = NoRequest
    /\ events = <<>>
    /\ nextCalls = <<>>
    /\ nextResult = NoResult
    /\ result = NoResult
    /\ served = 0

\* The factory struct is built from any two optional secrets.
Init ==
    /\ transport \in Transports
    /\ master_key \in OptionKeys
    /\ read_only_key \in OptionKeys
    /\ gate = NoGate
    /\ ready = NotPolled
    /\ pc = "idle"
    /\ req = NoRequest
    /\ events = <<>>
    /\ nextCalls = <<>>
    /\ nextResult = NoResult
    /\ result = NoResult
    /\ served = 0
    /\ NoViews
    /\ NoFlushers
    /\ NoAdvice

\* The adapter's factory builds the gate around the next stage.
NewTransform ==
    /\ gate = NoGate
    /\ gate' = IF transport = "http"
               THEN new_transform(master_key, read_only_key)
               ELSE layer(master_key, read_only_key)
    /\ UNCHANGED <<transport, master_key, read_only_key, ready, pc, req, events,
                   nextCalls, nextResult, result, served>>
    /\ UNCHANGED mmapVars

\* The host polls the gate; the next stage answers p.
PollReady(p) ==
    /\ gate # NoGate
    /\ pc = "idle"
    /\ ready' = [next |-> p, gate |-> poll_ready(gate, p)]
    /\ UNCHANGED <<transport, master_key, read_only_key, gate, pc, req, events,
                   nextCalls, nextResult, result, served>>
    /\ UNCHANGED mmapVars

\* The host calls the gate with request r, after a poll that said ready.
Call(r) ==
    /\ gate # NoGate
    /\ pc = "idle"
    /\ ready.gate = "ready"
    /\ LET run == GateCall(transport, gate, r)
       IN  /\ events' = run.events
           /\ nextCalls' = IF run.admit THEN <<run.passed>> ELSE <<>>
           /\ result' = run.result
           /\ pc' = IF run.admit THEN "awaiting" ELSE "done"
    /\ req' = r
    /\ nextResult' = NoResult
    /\ ready' = NotPolled
    /\ UNCHANGED <<transport, master_key, read_only_key, gate, served>>
    /\ UNCHANGED mmapVars

\* The next stage's future yields o, and with it the gate's future.
NextComplete(o) ==
    /\ pc = "awaiting"
    /\ nextResult' = o
    /\ result' = AwaitNext(transport, o)
    /\ pc' = "done"
    /\ UNCHANGED <<transport, master_key, read_only_key, gate, ready, req, events,
                   nextCalls, served>>
    /\ UNCHANGED mmapVars

\* The host takes what the gate's future yielded; the future is dropped and
\* the gate is free for the next request.
Deliver ==
    /\ pc = "done"
    /\ pc' = "idle"
    /\ served' = IF served < MaxServed THEN served + 1 ELSE served
    /\ req' = NoRequest
    /\ events' = <<>>
    /\ nextCalls' = <<>>
    /\ nextResult' = NoResult
    /\ result' = NoResult
    /\ UNCHANGED <<transport, master_key, read_only_key, gate, ready>>
    /\ UNCHANGED mmapVars

Next ==
    \/ NewTransform
    \/ \E p \in PollResults : PollReady(p)
    \/ \E r \in Requests : Call(r)
    \/ \E o \in NextOutcomes : NextComplete(o)
    \/ Deliver

Spec == Init /\ [][Next]_vars

\* ================================================================ claims

\* The configured secrets.
M == master_key.val
R == read_only_key.val

\* The gate's call has run for the current request.
Handled == pc \in {"awaiting", "done"}

\* The current request was handed to the next stage.
Forwarded == nextCalls # <<>>

\* The current request was answered 403 by the gate itself.
Answered403 ==
    /\ pc = "done"
    /\ nextCalls = <<>>
    /\ result.kind = "ok"
    /\ result.resp.status = 403

\* The current request's api-key header is present, decodable as text and
\* equal to k.
HeaderIs(k) ==
    /\ req.api_key.some
    /\ ToStrOk(req.api_key.val)
    /\ req.api_key.val = k

\* The admission table of a Full gate, and that what is not forwarded is
\* answered 403.
FullTable ==
    /\ (req.method = "GET" => (Forwarded <=> (HeaderIs(M) \/ HeaderIs(R))))
    /\ (req.method # "GET" => (Forwarded <=> HeaderIs(M)))
    /\ (~Forwarded => Answered403)

\* C1, as stated: a Full gate (HTTP or gRPC) forwards a GET iff its header is
\* present, decodable and equal to M or R, forwards any other method iff the
\* header is present, decodable and equal to M, answers everything else 403;
\* and for ALL M and R a non-GET request carrying R is answered 403.
C1_Original ==
    (gate.variant = "Full" /\ Handled) =>
        /\ FullTable
        /\ (req.method # "GET" /\ req.api_key = Some(R) => Answered403)

\* C1, amended: the same table; a non-GET request carrying the read-only
\* secret R is answered 403 whenever R differs from the master secret M.
C1_Theorem ==
    (gate.variant = "Full" /\ Handled) =>
        /\ FullTable
        /\ (req.method # "GET" /\ req.api_key = Some(R) /\ R # M => Answered403)

\* A Full gRPC gate has answered 403 to a POST carrying its read-only secret.
C1_Witness ==
    /\ transport = "grpc"
    /\ gate.variant = "Full"
    /\ R # M
    /\ req.method = "POST"
    /\ HeaderIs(R)
    /\ Answered403

\* C2: a ReadOnly gate with secret K (HTTP or gRPC) forwards a request iff its
\* method is GET and its api-key header is present, decodable and equal to K;
\* every request of another method is answered 403 whatever its header.
C2_Theorem ==
    (gate.variant = "ReadOnly" /\ Handled) =>
        /\ (Forwarded <=> (req.method = "GET" /\ HeaderIs(R)))
        /\ (~Forwarded => Answered403)
        /\ (req.method # "GET" => Answered403)

\* A ReadOnly HTTP gate has answered 403 to a PUT carrying its secret.
C2_Witness ==
    /\ transport = "http"
    /\ gate.variant = "ReadOnly"
    /\ req.method = "PUT"
    /\ HeaderIs(R)
    /\ Answered403

\* a is a strict prefix of b.
StrictPrefix(a, b) == Len(a) < Len(b) /\ SubSeq(b, 1, Len(a)) = a

\* C3: a Master gate with secret K (HTTP or gRPC, any method) forwards a
\* request iff its api-key header is present, decodable as text and byte-equal
\* to K; a strict prefix or an extension of K is answered 403, as is every
\* other request.
C3_Theorem ==
    (gate.variant = "Master" /\ Handled) =>
        /\ (Forwarded <=> HeaderIs(M))
        /\ (~Forwarded => Answered403)
        /\ ((req.api_key.some
              /\ (StrictPrefix(req.api_key.val, M) \/ StrictPrefix(M, req.api_key.val)))
            => Answered403)

\* A Master HTTP gate has answered 403 to a non-empty strict prefix of its
\* secret.
C3_Witness ==
    /\ transport = "http"
    /\ gate.variant = "Master"
    /\ req.api_key.some
    /\ req.api_key.val # <<>>
    /\ StrictPrefix(req.api_key.val, M)
    /\ Answered403

\* C4: a Phantom gate hands every request (any method, any header or none) to
\* the next stage without inspecting it, and yields exactly what the next
\* stage yields.
C4_Theorem ==
    (gate.variant = "Phantom" /\ Handled) =>
        /\ nextCalls = <<req>>
        /\ \A i \in DOMAIN events : events[i].op = "service.call"
        /\ result = nextResult
        /\ (pc = "done" => nextResult \in NextOutcomes)

\* A Phantom gRPC gate has yielded the next stage's response to a PUT that
\* carried no api-key header.
C4_Witness ==
    /\ transport = "grpc"
    /\ gate.variant = "Phantom"
    /\ req.method = "PUT"
    /\ ~req.api_key.some
    /\ pc = "done"
    /\ result.kind = "ok"
    /\ result = nextResult

\* The variant the two optional secrets select.
VariantOf(m, ro) ==
    CASE m.some /\ ro.some -> "Full"
      [] m.some /\ ~ro.some -> "Master"
      [] ~m.some /\ ro.some -> "ReadOnly"
      [] OTHER -> "Phantom"

\* Whether a request of this method and api-key header is admitted under the
\* two optional secrets.
Admits(m, ro, method, hdr) ==
    LET is(k) == hdr.some /\ ToStrOk(hdr.val) /\ hdr.val = k
    IN  CASE m.some /\ ro.some -> is(m.val) \/ (method = "GET" /\ is(ro.val))
          [] m.some /\ ~ro.some -> is(m.val)
          [] ~m.some /\ ro.some -> method = "GET" /\ is(ro.val)
          [] OTHER -> TRUE

C5_Selection ==
    gate # NoGate =>
        /\ gate.variant = VariantOf(master_key, read_only_key)
        /\ (gate.variant \in {"Full", "Master"} => gate.master_key = M)
        /\ (gate.variant \in {"Full", "ReadOnly"} => gate.read_only_key = R)

C5_Decision ==
    Handled => (Forwarded <=> Admits(master_key, read_only_key, req.method, req.api_key))

C5_Fixed ==
    /\ master_key' = master_key
    /\ read_only_key' = read_only_key
    /\ (gate # NoGate => gate' = gate)

\* C5: the factory selects Full / Master / ReadOnly / Phantom from the two
\* optional secrets (both, master only, read-only only, neither); the variant
\* and its secrets never change afterwards; after any sequence of requests
\* the admission of a request is a function of the configured secrets, the
\* request's method and its api-key header alone.
C5_Theorem == [](C5_Selection /\ C5_Decision) /\ [][C5_Fixed]_vars

\* After an earlier request was answered, a Master gate (built from a master
\* secret alone) has forwarded a request that carries another header too.
C5_Witness ==
    /\ served >= 1
    /\ master_key.some /\ ~read_only_key.some
    /\ gate.variant = "Master"
    /\ req.other.some
    /\ Forwarded

\* C6: for every variant and request, a rejected request never reaches the
\* next stage; an admitted one reaches it exactly once, after every
\* inspection step of the gate (which, but for Phantom, includes reading the
\* header), and as the request that came in.
C6_Theorem ==
    Handled =>
        LET calls == {i \in DOMAIN events : events[i].op = "service.call"}
            rejections == {i \in DOMAIN events : events[i].op = "forbidden"}
        IN  /\ Len(nextCalls) = Cardinality(calls)
            /\ Cardinality(calls) + Cardinality(rejections) = 1
            /\ (rejections # {} => nextCalls = <<>> /\ pc = "done")
            /\ (calls # {} =>
                  /\ nextCalls = <<req>>
                  /\ calls = {Len(events)}
                  /\ (gate.variant # "Phantom" =>
                        \E j \in 1..(Len(events) - 1) : events[j].op = "headers.get"))

\* A Full HTTP gate has handed a request, header and all, to the next stage
\* after comparing its key.
C6_Witness ==
    /\ transport = "http"
    /\ gate.variant = "Full"
    /\ nextCalls = <<req>>
    /\ req.api_key.some
    /\ Len(events) >= 4
    /\ events[Len(events)].op = "service.call"

\* The gate itself answered the current request.
Rejected == pc = "done" /\ nextCalls = <<>>

\* C7: within one transport every rejection is the same response whatever its
\* cause: HTTP 403 with body "Invalid api-key"; gRPC 403 with headers
\* grpc-status: 7 and grpc-message: "Invalid api-key" and an empty body.
C7_Theorem ==
    Rejected =>
        /\ result.kind = "ok"
        /\ result.resp.status = 403
        /\ (transport = "http" =>
              /\ result.resp.body = "Invalid api-key"
              /\ result.resp.headers = {})
        /\ (transport = "grpc" =>
              /\ result.resp.body = ""
              /\ result.resp.headers =
                    {<<"grpc-status", "7">>, <<"grpc-message", "Invalid api-key">>})

\* A Master gRPC gate has rejected a request for its missing header.
C7_Witness ==
    /\ transport = "grpc"
    /\ gate.variant = "Master"
    /\ Rejected
    /\ ~req.api_key.some
    /\ result.resp.headers = {<<"grpc-status", "7">>, <<"grpc-message", "Invalid api-key">>}

\* C8: a rejection is an Ok carrying the forbidden response, never an error;
\* the gate's result is an error only when the request was admitted and the
\* next stage returned that very error.
C8_Theorem ==
    /\ (Rejected => result.kind = "ok" /\ result.resp.status = 403)
    /\ (result.kind = "err" =>
          /\ Forwarded
          /\ nextResult.kind = "err"
          /\ result = nextResult)

\* A gRPC gate has passed on the error of the next stage.
C8_Witness ==
    /\ transport = "grpc"
    /\ Forwarded
    /\ pc = "done"
    /\ result.kind = "err"
    /\ result = nextResult

\* C9: for every variant the gate's readiness poll returns what the next
\* stage's poll returned: ready, pending or error.
C9_Theorem == ready.gate = ready.next

\* A Full gRPC gate has answered pending because the next stage did.
C9_Witness ==
    /\ transport = "grpc"
    /\ gate.variant = "Full"
    /\ ready.next = "pending"
    /\ ready.gate = "pending"

\* C10: every comparison of the request's key with a configured secret is the
\* constant-time one, whose count of bytes visited is fixed by the two
\* lengths (all of them when the lengths agree, none otherwise) and not by
\* where the bytes differ; and no request is admitted by a gate holding
\* secrets without such a comparison having matched.
C10_Theorem ==
    Handled =>
        /\ \A i \in DOMAIN events :
              events[i].which # "" =>
                  /\ events[i].op = "constant_time_eq"
                  /\ events[i].steps = (IF events[i].la = events[i].lb
                                        THEN events[i].la ELSE 0)
        /\ (Forwarded /\ gate.variant # "Phantom" =>
              \E i \in DOMAIN events :
                  events[i].op = "constant_time_eq" /\ events[i].eq)

\* A gate has compared a two-byte key with a two-byte secret that differs
\* from it in the first byte, visiting both bytes.
C10_Witness ==
    /\ Handled
    /\ req.api_key.some
    /\ Len(req.api_key.val) = 2
    /\ gate.variant = "Master"
    /\ Len(M) = 2
    /\ M[1] # req.api_key.val[1]
    /\ \E i \in DOMAIN events :
          events[i].which = "master_key" /\ events[i].steps = 2 /\ ~events[i].eq

\* ======================================= typed views over a mapped file

\* How many elements a bulk write through a sequence view may carry.
MaxElems == 3

\* The element types the views are opened over: size and alignment in bytes
\* on a 64-bit target. A value of f32 is written as its bit pattern.
u8 == [name |-> "u8", size |-> 1, align |-> 1]
f32 == [name |-> "f32", size |-> 4, align |-> 4]
usize == [name |-> "usize", size |-> 8, align |-> 8]

ElemTypes == {u8, f32, usize}

\* The bits of one word of a bit view.
BitsPerWord == 8 * usize.size

\* The lengths of the files, the header sizes of the bit views, the addresses
\* a mapping may start at (page aligned, or off by an offset into the file),
\* the bit indices written and the values written.
FileLens == {0, 1, 4, 8, 12, 64}
Headers == {0, 4, 8, 16}
Bases == {4096, 4097, 4100}
BitIndices == {0, 3, 17, 63, 383, 511}
SampleValues(T) == IF T.size = 1 THEN {0, 1, 255} ELSE {0, 258, 16777217}

Builds == [debug : BOOLEAN]

\* A file is viewed as one value, as a sequence of values or as bits behind
\* a header; only the bit view has a header.
Configs ==
    [kind : {"type", "slice"}, ty : ElemTypes, header : {0}]
        \cup [kind : {"bits"}, ty : {usize}, header : Headers]

\* A value as the bytes memory holds for it (little endian), and back.
RECURSIVE Encode(_, _)
Encode(v, n) == IF n = 0 THEN <<>> ELSE <<v % 256>> \o Encode(v \div 256, n - 1)

RECURSIVE Decode(_)
Decode(bs) == IF bs = <<>> THEN 0 ELSE bs[1] + 256 * Decode(Tail(bs))

Zeros(n) == [i \in 1..n |-> 0]

\* What a constructor yields: the view, or a panic.
ViewOk(base, offset, len) ==
    [state |-> "open", base |-> base, offset |-> offset, len |-> len]

ViewPanic == [state |-> "panicked", base |-> 0, offset |-> 0, len |-> 0]

\* An index past the end of an open view panics.
IndexPanic(v) == [v EXCEPT !.state = "index_panic"]

\* assert_alignment: the bytes start at a multiple of T's alignment.
assert_alignment(addr, T) == addr % T.align = 0

\* The mapping as one T with no test of where it starts.
mmap_to_type_unbounded_unaligned(base, len, T) ==
    IF len # T.size THEN ViewPanic ELSE ViewOk(base, 0, 1)

\* mmap_to_type_unbounded: the mapping as one T.
mmap_to_type_unbounded(base, len, T) ==
    IF ~assert_alignment(base, T) THEN ViewPanic
    ELSE IF len # T.size THEN ViewPanic
    ELSE ViewOk(base, 0, 1)

\* The mapping as a slice of T whose length counts the header's bytes too.
mmap_to_slice_unbounded_whole(base, len, header_size, T, debug) ==
    IF header_size > len THEN ViewPanic
    ELSE IF ~assert_alignment(base + header_size, T) THEN ViewPanic
    ELSE IF debug /\ header_size % T.size # 0 THEN ViewPanic
    ELSE IF len % T.size # 0 THEN ViewPanic
    ELSE ViewOk(base, header_size, len \div T.size)

\* mmap_to_slice_unbounded: the mapping behind its header as a slice of T.
mmap_to_slice_unbounded(base, len, header_size, T, debug) ==
    IF header_size > len THEN ViewPanic
    ELSE IF ~assert_alignment(base + header_size, T) THEN ViewPanic
    ELSE IF debug /\ header_size % T.size # 0 THEN ViewPanic
    ELSE IF (len - header_size) % T.size # 0 THEN ViewPanic
    ELSE ViewOk(base, header_size, (len - header_size) \div T.size)

\* MmapType::from, MmapSlice::from (through MmapType::slice_from) and
\* MmapBitSlice::from (a bit slice over the words behind the header).
MmapType_from(base, len, T) == mmap_to_type_unbounded(base, len, T)

MmapSlice_from(base, len, T, debug) == mmap_to_slice_unbounded(base, len, 0, T, debug)

\* A bit slice that counts one bit for each byte of a word.
MmapBitSlice_from_bytes(base, len, header_size, debug) ==
    LET data == mmap_to_slice_unbounded(base, len, header_size, usize, debug)
    IN  IF data.state = "open"
        THEN ViewOk(data.base, data.offset, data.len * usize.size)
        ELSE data

MmapBitSlice_from(base, len, header_size, debug) ==
    LET data == mmap_to_slice_unbounded(base, len, header_size, usize, debug)
    IN  IF data.state = "open"
        THEN ViewOk(data.base, data.offset, data.len * BitsPerWord)
        ELSE data

Construct(c, base, len, debug) ==
    CASE c.kind = "type" -> MmapType_from(base, len, c.ty)
      [] c.kind = "slice" -> MmapSlice_from(base, len, c.ty, debug)
      [] c.kind = "bits" -> MmapBitSlice_from(base, len, c.header, debug)

\* Bytes k .. k+n-1 of the file (k counted from 0), and the file with them replaced.
BytesAt(f, k, n) == SubSeq(f, k + 1, k + n)

WithBytes(f, k, bs) ==
    [i \in 1..Len(f) |-> IF i > k /\ i <= k + Len(bs) THEN bs[i - k] ELSE f[i]]

\* Deref of a value view, and of a sequence view: the elements in order.
ReadValue(f, v, T) == Decode(BytesAt(f, v.offset, T.size))

ReadSlice(f, v, T) ==
    [i \in 1..v.len |-> Decode(BytesAt(f, v.offset + (i - 1) * T.size, T.size))]

\* A bulk write that stays in a private copy of the mapping.
CopyFromSliceBytesPrivate(f, v, T, template) == f

\* copy_from_slice through a sequence view.
CopyFromSliceBytes(f, v, T, template) ==
    [i \in 1..Len(f) |->
        IF i > v.offset /\ i <= v.offset + v.len * T.size
        THEN Encode(template[((i - v.offset - 1) \div T.size) + 1], T.size)
                 [((i - v.offset - 1) % T.size) + 1]
        ELSE f[i]]

\* A bit of a byte, and the byte with that bit set to b.
Pow2(k) == CASE k = 0 -> 1 [] k = 1 -> 2 [] k = 2 -> 4 [] k = 3 -> 8
             [] k = 4 -> 16 [] k = 5 -> 32 [] k = 6 -> 64 [] k = 7 -> 128

ByteBit(x, k) == (x \div Pow2(k)) % 2 = 1

\* A byte rewritten whole for one bit.
ByteWithBitClobber(x, k, b) == IF b THEN Pow2(k) ELSE 0

ByteWithBit(x, k, b) ==
    IF ByteBit(x, k) = b THEN x
    ELSE IF b THEN x + Pow2(k) ELSE x - Pow2(k)

\* Bit i looked up in the first word, whatever word it belongs to.
BitByteAliased(v, i) == v.offset + ((i % BitsPerWord) \div 8)

\* Where bit i of a bit view lives: the byte behind the view's offset (words
\* are little endian, bits are counted from the least significant).
BitByte(v, i) == v.offset + (i \div 8)

\* get(i) and set(i, b) of a bit view, for 0 <= i < v.len.
GetBit(f, v, i) == ByteBit(f[BitByte(v, i) + 1], i % 8)

SetBitBytes(f, v, i, b) ==
    [f EXCEPT ![BitByte(v, i) + 1] = ByteWithBit(@, i % 8, b)]

\* The bits that read as set through a bit view.
SetBits(f, v) == {i \in 0..(v.len - 1) : GetBit(f, v, i)}

Nothing == [some |-> FALSE, val |-> 0]

\* A file of any of the lengths is created, filled with zeros, to be viewed
\* in one way by one build.
ViewInit ==
    /\ build \in Builds
    /\ cfg \in Configs
    /\ \E len \in FileLens : file = Zeros(len)
    /\ view = ClosedView
    /\ expected = Nothing
    /\ opens = 0
    /\ synced = TRUE
    /\ gateIdle
    /\ NoFlushers
    /\ NoAdvice

\* The file is mapped at some address and the view is constructed over it.
OpenView(base) ==
    /\ view.state = "closed"
    /\ view' = [Construct(cfg, base, Len(file), build.debug) EXCEPT !.base = base]
    /\ opens' = IF opens < 2 THEN opens + 1 ELSE opens
    /\ UNCHANGED <<build, cfg, file, expected, synced, outsideViews>>

\* A value is written through a value view.
WriteValue(val) ==
    /\ view.state = "open"
    /\ cfg.kind = "type"
    /\ file' = WithBytes(file, view.offset, Encode(val, cfg.ty.size))
    /\ expected' = Some(val)
    /\ synced' = FALSE
    /\ UNCHANGED <<build, cfg, view, opens, outsideViews>>

\* copy_from_slice(template) through a sequence view of the template's length.
CopyFromSlice(template) ==
    /\ view.state = "open"
    /\ cfg.kind = "slice"
    /\ Len(template) = view.len
    /\ file' = CopyFromSliceBytes(file, view, cfg.ty, template)
    /\ expected' = Some(template)
    /\ synced' = FALSE
    /\ UNCHANGED <<build, cfg, view, opens, outsideViews>>

\* set(i, b) through a bit view; an index past the length panics.
SetBit(i, b) ==
    /\ view.state = "open"
    /\ cfg.kind = "bits"
    /\ IF i < view.len
       THEN /\ file' = SetBitBytes(file, view, i, b)
            /\ expected' = Some(IF b THEN (IF expected.some THEN expected.val ELSE {}) \cup {i}
                                     ELSE (IF expected.some THEN expected.val ELSE {}) \ {i})
            /\ synced' = FALSE
            /\ view' = view
       ELSE /\ view' = IndexPanic(view)
            /\ UNCHANGED <<file, expected, synced>>
    /\ UNCHANGED <<build, cfg, opens, outsideViews>>

\* A flusher of the view is called: the mapping is written to the disk.
FlushView ==
    /\ view.state = "open"
    /\ ~synced
    /\ synced' = TRUE
    /\ UNCHANGED <<build, cfg, file, view, expected, opens, outsideViews>>

\* The view is dropped and the file unmapped; its bytes stay.
DropView ==
    /\ view.state = "open"
    /\ view' = ClosedView
    /\ UNCHANGED <<build, cfg, file, expected, opens, synced, outsideViews>>

ViewNext ==
    \/ \E base \in Bases : OpenView(base)
    \/ \E val \in SampleValues(cfg.ty) : WriteValue(val)
    \/ \E template \in SeqsUpTo(SampleValues(cfg.ty), MaxElems) : CopyFromSlice(template)
    \/ \E i \in BitIndices, b \in BOOLEAN : SetBit(i, b)
    \/ FlushView
    \/ DropView

SpecView == ViewInit /\ [][ViewNext]_vars

\* ================================================================ claims on the typed views

\* What the file was made to hold: what was written last, or zeros.
Held(zero) == IF expected.some THEN expected.val ELSE zero

\* A constructor has run over the mapping at view.base.
Constructed == view.state \in {"open", "panicked"}

\* C11: MmapType::from yields a view exactly when the mapping's length is
\* sizeof(T) and its base is a multiple of alignof(T), and panics otherwise;
\* the value read through the view is the value of the file's bytes: what
\* was written last, zero for a fresh file.
C11_Theorem ==
    (cfg.kind = "type" /\ Constructed) =>
        /\ view.state = "open" <=>
              (Len(file) = cfg.ty.size /\ view.base % cfg.ty.align = 0)
        /\ view.state = "open" =>
              /\ ReadValue(file, view, cfg.ty) = Decode(file)
              /\ ReadValue(file, view, cfg.ty) = Held(0)

\* A value view over f32 is opened a second time, at an aligned base, over a
\* file a value was written to.
C11_Witness ==
    /\ cfg.kind = "type"
    /\ cfg.ty = f32
    /\ view.state = "open"
    /\ opens = 2
    /\ expected = Some(258)

\* The geometry of a sequence of T behind a header.
HeaderInside == cfg.header <= Len(file)
Suffix == Len(file) - cfg.header
SuffixFits == Suffix % cfg.ty.size = 0
SuffixAligned == (view.base + cfg.header) % cfg.ty.align = 0
HeaderFits == cfg.header % cfg.ty.size = 0

\* The elements of the sequence the view stands on.
SeqLen == IF cfg.kind = "bits" THEN view.len \div BitsPerWord ELSE view.len

\* C12 as stated: a sequence over T behind a header h inside a region of
\* length L has (L - h) / sizeof(T) elements whenever L - h is a multiple of
\* sizeof(T) and the suffix is aligned, and its construction panics
\* otherwise.
C12_Original ==
    (cfg.kind \in {"slice", "bits"} /\ Constructed /\ HeaderInside) =>
        IF SuffixFits /\ SuffixAligned
        THEN view.state = "open" /\ SeqLen = Suffix \div cfg.ty.size
        ELSE view.state = "panicked"

\* C12: the same, with the debug build's further test: there the
\* construction also panics when h is not a multiple of sizeof(T).
C12_Theorem ==
    (cfg.kind \in {"slice", "bits"} /\ Constructed /\ HeaderInside) =>
        IF SuffixFits /\ SuffixAligned /\ (build.debug => HeaderFits)
        THEN view.state = "open" /\ SeqLen = Suffix \div cfg.ty.size
        ELSE view.state = "panicked"

\* A release build has a sequence of one word behind a header of 4 bytes,
\* in a mapping that starts 4 bytes past a page.
C12_Witness ==
    /\ ~build.debug
    /\ cfg.kind = "bits"
    /\ cfg.header = 4
    /\ Len(file) = 12
    /\ view.state = "open"
    /\ view.base = 4100
    /\ SeqLen = 1

\* C13: what is read through a sequence view is what copy_from_slice wrote
\* last through a view of the file, this one or one dropped before
\* (zeros for a fresh file), for every element type and length.
C13_Theorem ==
    (cfg.kind = "slice" /\ view.state = "open") =>
        /\ Len(file) = view.len * cfg.ty.size
        /\ ReadSlice(file, view, cfg.ty) = Held(Zeros(view.len))

\* Three values were written to a file of 12 bytes, the view dropped and
\* the file opened again.
C13_Witness ==
    /\ cfg.kind = "slice"
    /\ cfg.ty = f32
    /\ Len(file) = 12
    /\ view.state = "open"
    /\ opens = 2
    /\ expected = Some(<<258, 0, 16777217>>)

\* C14: the bits that read as set through a bit view are the bits last set
\* to true through a view of the file with the same header, this one or one
\* dropped before.
C14_Theorem ==
    (cfg.kind = "bits" /\ view.state = "open") =>
        SetBits(file, view) = Held({})

\* Bits in two words behind a header were set and the file opened again.
C14_Witness ==
    /\ cfg.kind = "bits"
    /\ cfg.header = 8
    /\ Len(file) = 64
    /\ view.state = "open"
    /\ opens = 2
    /\ expected = Some({0, 63, 383})

\* A bit view over a region of 64 bytes with a header of 16.
Region64Header16 ==
    /\ cfg.kind = "bits"
    /\ cfg.header = 16
    /\ Len(file) = 64
    /\ view.state = "open"

\* C15 as stated: bits 3, 17 and 511 of the view can be set, and once they
\* are, they are the bits set in the view that reopens the file.
C15_Original ==
    Region64Header16 =>
        /\ \A i \in {3, 17, 511} : i < view.len
        /\ (opens = 2 /\ expected = Some({3, 17, 511})) =>
              SetBits(file, view) = {3, 17, 511}

\* C15: the view has 384 bits, so no bit 511; with 383 as the third bit,
\* the bits set, flushed and read after reopening are exactly those three.
C15_Theorem ==
    Region64Header16 =>
        /\ view.len = 384
        /\ 511 \notin Held({})
        /\ (opens = 2 /\ expected = Some({3, 17, 383})) =>
              SetBits(file, view) = {3, 17, 383}

\* Bits 3, 17 and 383 were set and flushed and the file was opened again.
C15_Witness ==
    /\ Region64Header16
    /\ opens = 2
    /\ synced
    /\ expected = Some({3, 17, 383})

\* The length in bits of a bit view.
C16_Length ==
    (cfg.kind = "bits" /\ view.state = "open") =>
        view.len = 8 * usize.size * ((Len(file) - cfg.header) \div usize.size)

\* set(i, b) on an index inside the view makes get(i) return b and changes
\* no other bit; on an index outside it panics.
C16_Set ==
    \A i \in BitIndices, b \in BOOLEAN :
        SetBit(i, b) =>
            IF i < view.len
            THEN /\ view' = view
                 /\ GetBit(file', view, i) = b
                 /\ \A j \in 0..(view.len - 1) :
                       j # i => GetBit(file', view, j) = GetBit(file, view, j)
            ELSE view'.state = "index_panic" /\ file' = file

\* C16: a bit view behind a header h on a region of length L has
\* 8 * word_size * n bits with n = (L - h) / word_size; get and set are
\* defined for the indices below that; set(i, b) makes get(i) return b and
\* leaves every other bit as it was.
C16_Theorem == []C16_Length /\ [][C16_Set]_vars

\* Two bits of one byte were set through a view of one word.
C16_Witness ==
    /\ cfg.kind = "bits"
    /\ Len(file) = 8
    /\ view.state = "open"
    /\ view.len = 64
    /\ expected = Some({0, 3})

\* ======================================= shared ownership and flushes of a mapping

\* How many flushers may be waiting to be called at one time.
MaxFlushers == 2

\* Arc::new(Mutex::new(mmap)): the mapping with its first owner.
ArcNew == [mapped |-> TRUE, owners |-> 1]

\* A flusher that borrows the mapping without owning it.
ArcBorrow(m) == m

\* self.mmap.clone(): one more owner of the mapping.
ArcClone(m) == [m EXCEPT !.owners = @ + 1]

\* An owner is dropped; the last one unmaps the file.
ArcDrop(m) == [mapped |-> m.owners - 1 > 0, owners |-> m.owners - 1]

\* A flush that does not wait for the mutex.
MutexFreeAlways(m) == TRUE

\* mmap.lock(): the caller goes on when nobody holds the mutex.
MutexFree(m) == m = "free"

\* What lock() leaves of the pages' pinning: it flushes, and asks for no
\* page to be kept in memory.
lock_effect(pin) == pin

\* The views the ownership is followed for: one word as a value, as bytes
\* and as bits.
FlushConfigs ==
    {[kind |-> "type", ty |-> usize, header |-> 0],
     [kind |-> "slice", ty |-> u8, header |-> 0],
     [kind |-> "bits", ty |-> usize, header |-> 0]}

\* A file of one word, not mapped yet.
FlushInit ==
    /\ build = [debug |-> FALSE]
    /\ cfg \in FlushConfigs
    /\ file = Zeros(usize.size)
    /\ view = ClosedView
    /\ expected = Nothing
    /\ opens = 0
    /\ synced = TRUE
    /\ NoFlushers
    /\ gateIdle
    /\ NoAdvice

\* The file is mapped and a view constructed; the view is the mapping's
\* first owner.
OpenShared(base) ==
    /\ view.state = "closed"
    /\ ~mapping.mapped
    /\ assert_alignment(base, cfg.ty)
    /\ view' = Construct(cfg, base, Len(file), build.debug)
    /\ mapping' = ArcNew
    /\ pinned' = FALSE
    /\ lockReturn' = "none"
    /\ UNCHANGED <<build, cfg, file, expected, opens, synced, flushers, thread,
                   mutex, owner, outsideMmap>>

\* The owner writes through the view.
WriteShared ==
    /\ view.state = "open"
    /\ owner = "idle"
    /\ synced
    /\ synced' = FALSE
    /\ UNCHANGED <<build, cfg, file, view, expected, opens, flushVars, outsideMmap>>

\* flusher(): a closure with a clone of the Arc.
MakeFlusher ==
    /\ view.state = "open"
    /\ owner = "idle"
    /\ flushers < MaxFlushers
    /\ flushers' = flushers + 1
    /\ mapping' = ArcClone(mapping)
    /\ UNCHANGED <<viewVars, thread, mutex, owner, pinned, lockReturn, outsideMmap>>

\* A flusher is dropped without having been called.
DropFlusher ==
    /\ flushers > 0
    /\ flushers' = flushers - 1
    /\ mapping' = ArcDrop(mapping)
    /\ UNCHANGED <<viewVars, thread, mutex, owner, pinned, lockReturn, outsideMmap>>

\* The view is dropped, and with it its share of the mapping.
DropShared ==
    /\ view.state = "open"
    /\ owner = "idle"
    /\ view' = ClosedView
    /\ mapping' = ArcDrop(mapping)
    /\ UNCHANGED <<build, cfg, file, expected, opens, synced, flushers, thread,
                   mutex, owner, pinned, lockReturn, outsideMmap>>

\* Thread t calls a flusher: the closure asks for the mutex.
InvokeFlusher(t) ==
    /\ thread[t] = "idle"
    /\ flushers > 0
    /\ flushers' = flushers - 1
    /\ thread' = [thread EXCEPT ![t] = "waiting"]
    /\ UNCHANGED <<viewVars, mapping, mutex, owner, pinned, lockReturn, outsideMmap>>

\* Thread t gets the mutex and starts the OS flush.
Acquire(t) ==
    /\ thread[t] = "waiting"
    /\ MutexFree(mutex)
    /\ mutex' = t
    /\ thread' = [thread EXCEPT ![t] = "flushing"]
    /\ UNCHANGED <<viewVars, mapping, flushers, owner, pinned, lockReturn, outsideMmap>>

\* The OS flush of thread t ends: the guard releases the mutex, the closure
\* returns and its clone of the Arc is dropped.
FlushDone(t) ==
    /\ thread[t] = "flushing"
    /\ synced' = TRUE
    /\ mutex' = IF mutex = t THEN "free" ELSE mutex
    /\ thread' = [thread EXCEPT ![t] = "idle"]
    /\ mapping' = ArcDrop(mapping)
    /\ UNCHANGED <<build, cfg, file, view, expected, opens, flushers, owner,
                   pinned, lockReturn, outsideMmap>>

\* The owner calls lock(): self.mmap.lock() asks for the mutex.
LockCall ==
    /\ view.state = "open"
    /\ owner = "idle"
    /\ owner' = "waiting"
    /\ lockReturn' = "none"
    /\ UNCHANGED <<viewVars, mapping, flushers, thread, mutex, pinned, outsideMmap>>

\* The owner gets the mutex and calls flush() on the mapping.
LockAcquire ==
    /\ owner = "waiting"
    /\ MutexFree(mutex)
    /\ mutex' = "owner"
    /\ owner' = "flushing"
    /\ UNCHANGED <<viewVars, mapping, flushers, thread, pinned, lockReturn, outsideMmap>>

\* The flush ends, the mutex is released and lock() returns its result.
LockReturn ==
    /\ owner = "flushing"
    /\ synced' = TRUE
    /\ pinned' = lock_effect(pinned)
    /\ mutex' = IF mutex = "owner" THEN "free" ELSE mutex
    /\ owner' = "idle"
    /\ lockReturn' = "ok"
    /\ UNCHANGED <<build, cfg, file, view, expected, opens, mapping, flushers,
                   thread, outsideMmap>>

FlushNext ==
    \/ \E base \in Bases : OpenShared(base)
    \/ WriteShared
    \/ MakeFlusher
    \/ DropFlusher
    \/ DropShared
    \/ \E t \in Threads : InvokeFlusher(t)
    \/ \E t \in Threads : Acquire(t)
    \/ \E t \in Threads : FlushDone(t)
    \/ LockCall
    \/ LockAcquire
    \/ LockReturn

SpecFlush == FlushInit /\ [][FlushNext]_vars

\* The scheduler runs every thread: a flush that was started ends, and a
\* thread that waits for the mutex gets it when it is free again and again.
FlushFairness ==
    /\ \A t \in Threads : WF_vars(FlushDone(t)) /\ SF_vars(Acquire(t))
    /\ WF_vars(LockReturn)
    /\ SF_vars(LockAcquire)

SpecFlushFair == FlushInit /\ [][FlushNext]_vars /\ FlushFairness

\* ================================================================ claims on ownership and flushes

\* The owners of the mapping that exist: the view, the flushers not called
\* yet and the flushers being called.
Calling == {t \in Threads : thread[t] # "idle"}
Owners == (IF view.state = "open" THEN 1 ELSE 0) + flushers + Cardinality(Calling)

\* The file is mapped exactly while an owner exists.
C17_Held == mapping.mapped <=> Owners > 0

\* A flusher runs on the mapped file and leaves it flushed, with or without
\* the view; nothing but the drop of the last owner unmaps the file.
C17_Step ==
    /\ \A t \in Threads :
          (Acquire(t) \/ FlushDone(t)) => mapping.mapped
    /\ \A t \in Threads : FlushDone(t) => synced'
    /\ (mapping.mapped /\ ~mapping'.mapped) => (Owners = 1 /\ Owners' = 0)

\* C17: a flusher shares the ownership of the mapping with the view it came
\* from: the file stays mapped while the view or a flusher exists, a
\* flusher called after the view was dropped flushes that mapping, and the
\* file is unmapped when the last owner is dropped.
C17_Theorem == []C17_Held /\ [][C17_Step]_vars

\* The view was dropped after a write; one flusher is flushing and another
\* is still to be called.
C17_Witness ==
    /\ view.state = "closed"
    /\ mapping.mapped
    /\ ~synced
    /\ flushers = 1
    /\ thread["t1"] = "flushing"

\* Who has an OS flush of the mapping in progress.
InFlush ==
    {t \in Threads : thread[t] = "flushing"}
        \cup (IF owner = "flushing" THEN {"owner"} ELSE {})

\* At most one flush is in progress, by the holder of the mutex.
C18_Exclusive ==
    /\ Cardinality(InFlush) <= 1
    /\ \A t \in InFlush : mutex = t

\* flusher() can be called whoever holds the mutex, and leaves it alone.
C18_NeverBlocks ==
    (view.state = "open" /\ owner = "idle" /\ flushers < MaxFlushers) =>
        ENABLED MakeFlusher

C18_MakeStep == MakeFlusher => mutex' = mutex

\* A flusher that was called gets the mutex, flushes and returns.
C18_Live ==
    \A t \in Threads :
        /\ (thread[t] = "waiting") ~> (thread[t] = "flushing" /\ mutex = t)
        /\ (thread[t] = "flushing") ~> (thread[t] = "idle" /\ mutex # t)

C19_Claim == lockReturn = "ok" => pinned

\* ======================================= the process-wide advice

\* enum Advice, in the order of its discriminants.
Advice == <<"Normal", "Random", "Sequential", "PopulateRead">>

Advices == {Advice[i] : i \in DOMAIN Advice}

\* A value of the enum as the bits memory holds for it, and back.
Discriminant(a) == (CHOOSE i \in DOMAIN Advice : Advice[i] = a) - 1

AdviceBits(a) == [hi |-> Discriminant(a) \div 2, lo |-> Discriminant(a) % 2]

AdviceOf(bits) == Advice[2 * bits.hi + bits.lo + 1]

Platforms == {"linux", "unix", "windows"}

\* What the OS answers to an advice.
OsResults == {"ok", "os_error"}

\* ADVICE.write(): granted when nobody reads or writes.
WriteAllowed(l) == l.writer = "none" /\ l.readers = {}

\* A read of the static that waits for no writer.
ReadAllowedAlways(l) == TRUE

\* ADVICE.read(): granted when nobody writes.
ReadAllowed(l) == l.writer = "none"

\* A conversion that hands every advice on to the OS.
try_from_all(target, advice) == [ok |-> TRUE, advice |-> advice]

\* TryFrom<Advice> for memmap2::Advice (unix only).
try_from(target, advice) ==
    IF advice = "PopulateRead"
    THEN [ok |-> FALSE, advice |-> "none"]
    ELSE [ok |-> TRUE, advice |-> advice]

\* Madviseable::madvise for Mmap and MmapMut; os is the OS's answer if asked.
madvise(target, advice, os) ==
    IF target = "windows" THEN [os |-> "none", result |-> "ok"]
    ELSE LET converted == try_from(target, advice)
         IN  IF ~converted.ok THEN [os |-> "none", result |-> "unsupported"]
             ELSE [os |-> converted.advice, result |-> os]

\* The threads inside set_global, and a thread inside get_global.
Setting == {t \in Threads : caller[t].pc \in {"w_wait", "w_hi", "w_lo"}}
Getting(t) == caller[t].pc \in {"r_wait", "r_hi", "r_lo"}

AdviceInit ==
    /\ platform \in Platforms
    /\ StaticInit
    /\ NoViews
    /\ NoFlushers
    /\ gateIdle

\* Thread t calls set_global(advice).
SetCall(t, advice) ==
    /\ caller[t].pc = "idle"
    /\ caller' = [u \in Threads |->
                     IF u = t THEN [Idle EXCEPT !.pc = "w_wait", !.arg = advice]
                     ELSE IF Getting(u) THEN [caller[u] EXCEPT !.alone = FALSE]
                     ELSE caller[u]]
    /\ passed' = passed \cup {advice}
    /\ got' = [got EXCEPT ![t] = "none"]
    /\ UNCHANGED <<platform, ADVICE, rwlock, lastSet, advised, gateVars,
                   viewVars, flushVars>>

\* ADVICE.write() returns the guard.
WriteLock(t) ==
    /\ caller[t].pc = "w_wait"
    /\ WriteAllowed(rwlock)
    /\ rwlock' = [rwlock EXCEPT !.writer = t]
    /\ caller' = [caller EXCEPT ![t].pc = "w_hi"]
    /\ UNCHANGED <<platform, ADVICE, got, passed, lastSet, advised, gateVars,
                   viewVars, flushVars>>

\* The store through the guard, a part at a time.
StoreHi(t) ==
    /\ caller[t].pc = "w_hi"
    /\ ADVICE' = [ADVICE EXCEPT !.hi = AdviceBits(caller[t].arg).hi]
    /\ caller' = [caller EXCEPT ![t].pc = "w_lo"]
    /\ UNCHANGED <<platform, rwlock, got, passed, lastSet, advised, gateVars,
                   viewVars, flushVars>>

\* The store ends, the guard is dropped and set_global returns.
StoreLo(t) ==
    /\ caller[t].pc = "w_lo"
    /\ ADVICE' = [ADVICE EXCEPT !.lo = AdviceBits(caller[t].arg).lo]
    /\ rwlock' = [rwlock EXCEPT !.writer = "none"]
    /\ lastSet' = caller[t].arg
    /\ caller' = [caller EXCEPT ![t] = Idle]
    /\ UNCHANGED <<platform, got, passed, advised, gateVars, viewVars, flushVars>>

\* Thread t calls get_global().
GetCall(t) ==
    /\ caller[t].pc = "idle"
    /\ caller' = [caller EXCEPT ![t] = [Idle EXCEPT !.pc = "r_wait", !.alone = Setting = {}]]
    /\ got' = [got EXCEPT ![t] = "none"]
    /\ UNCHANGED <<platform, ADVICE, rwlock, passed, lastSet, advised,
                   gateVars, viewVars, flushVars>>

\* ADVICE.read() returns the guard.
ReadLock(t) ==
    /\ caller[t].pc = "r_wait"
    /\ ReadAllowed(rwlock)
    /\ rwlock' = [rwlock EXCEPT !.readers = @ \cup {t}]
    /\ caller' = [caller EXCEPT ![t].pc = "r_hi"]
    /\ UNCHANGED <<platform, ADVICE, got, passed, lastSet, advised, gateVars,
                   viewVars, flushVars>>

\* The load through the guard, a part at a time.
LoadHi(t) ==
    /\ caller[t].pc = "r_hi"
    /\ caller' = [caller EXCEPT ![t].pc = "r_lo", ![t].hi = ADVICE.hi]
    /\ UNCHANGED <<platform, ADVICE, rwlock, got, passed, lastSet, advised,
                   gateVars, viewVars, flushVars>>

\* The load ends, the guard is dropped and get_global returns the value.
LoadLo(t) ==
    /\ caller[t].pc = "r_lo"
    /\ got' = [got EXCEPT ![t] = AdviceOf([hi |-> caller[t].hi, lo |-> ADVICE.lo])]
    /\ rwlock' = [rwlock EXCEPT !.readers = @ \ {t}]
    /\ caller' = [caller EXCEPT ![t] = Idle]
    /\ UNCHANGED <<platform, ADVICE, passed, lastSet, advised, gateVars,
                   viewVars, flushVars>>

\* madvise(mapping, advice); the OS, if asked, answers os.
Madvise(advice, os) ==
    /\ advised' = madvise(platform, advice, os)
    /\ UNCHANGED <<platform, ADVICE, rwlock, caller, got, passed, lastSet,
                   gateVars, viewVars, flushVars>>

AdviceNext ==
    \/ \E t \in Threads, advice \in Advices : SetCall(t, advice)
    \/ \E t \in Threads : WriteLock(t)
    \/ \E t \in Threads : StoreHi(t)
    \/ \E t \in Threads : StoreLo(t)
    \/ \E t \in Threads : GetCall(t)
    \/ \E t \in Threads : ReadLock(t)
    \/ \E t \in Threads : LoadHi(t)
    \/ \E t \in Threads : LoadLo(t)
    \/ \E advice \in Advices, os \in OsResults : Madvise(advice, os)

SpecAdvice == AdviceInit /\ [][AdviceNext]_vars

\* ================================================================ claims on the advice

\* The default is Random until set_global is called.
C20_Initial == (passed = {}) => (AdviceOf(ADVICE) = "Random" /\ lastSet = "Random")

\* What get_global returns is Random or a value passed to set_global,
\* and the value set last when no set_global ran beside it.
C20_Got ==
    \A t \in Threads :
        LoadLo(t) =>
            /\ got'[t] \in {"Random"} \cup passed
            /\ caller[t].alone => got'[t] = lastSet

\* The value at rest is the value set last.
C20_AtRest == (rwlock.writer = "none") => AdviceOf(ADVICE) = lastSet

\* madvise leaves the static alone.
C20_Madvise ==
    \A advice \in Advices, os \in OsResults :
        Madvise(advice, os) => (ADVICE' = ADVICE /\ lastSet' = lastSet)

\* C20: the process-wide advice is Random until the first set_global; under
\* every interleaving get_global returns Random or a value some set_global
\* was called with, never a mix of two values, and the value set last when
\* no set_global runs beside it; madvise never changes it.
C20_Theorem == [](C20_Initial /\ C20_AtRest) /\ [][C20_Got /\ C20_Madvise]_vars

\* A writer is half way through storing Sequential over Random, the static
\* holds the bits of neither, a reader got Random beside the writer and
\* the OS was given an advice.
C20_Witness ==
    /\ caller["t2"].pc = "w_lo"
    /\ caller["t2"].arg = "Sequential"
    /\ ADVICE = [hi |-> 1, lo |-> 1]
    /\ got["t1"] = "Random"
    /\ advised.os = "Normal"

\* Everything madvise could touch but the record of the call itself.
BesideAdvised == <<platform, ADVICE, rwlock, caller, got, passed, lastSet>>

\* PopulateRead is refused, before the OS is asked.
C21_Refused(advice) ==
    /\ advised'.result = "unsupported"
    /\ advised'.os = "none"
    /\ UNCHANGED BesideAdvised

\* Normal, Random and Sequential go to the OS, whose answer is returned.
C21_Translated(advice, os) ==
    (platform # "windows" /\ advice # "PopulateRead") =>
        (advised'.os = advice /\ advised'.result = os)

\* Where the OS has no advice every call returns Ok and asks nothing.
C21_NoOp ==
    platform = "windows" =>
        (advised'.result = "ok" /\ advised'.os = "none" /\ UNCHANGED BesideAdvised)

BadHeader == cfg.header % usize.size # 0 \/ cfg.header > Len(file)

\* C22 as stated: MmapBitSlice::from panics, and yields no view, when the
\* header size is not a multiple of the word size or is larger than the
\* mapping.
C22_Claim ==
    (cfg.kind = "bits" /\ Constructed /\ BadHeader) => view.state = "panicked"

====
